---- MODULE Spec2Model ----
(***************************************************************************)
(* A model of gary/dynamics/naff.py: the NAFF frequency decomposition.     *)
(*                                                                         *)
(* Floating point values are modelled by integers.  Frequencies are in     *)
(* units of 1e-6, so that the two thresholds of the fundamental selection  *)
(* (1e-5 and 1e-6) are the integers FreqEps and DiffEps.  The results of   *)
(* the numerical primitives (fft, fmin_slsqp, simps) are drawn from small  *)
(* sets: the model keeps the control flow, the containers and the          *)
(* bookkeeping of the code, and lets the numerics be any value.            *)
(***************************************************************************)
EXTENDS Integers, Sequences, FiniteSets, TLC

VARIABLES
    pc,               \* control location of the running call
    stack,            \* call stack, outermost frame first
    entry,            \* the function the caller invoked
    exc,              \* the exception raised by the run, if any
    \* orbit_to_freqs
    silently_fail, is_tube, otf_freqs, otf_d, otf_ixes, otf_ret,
    \* find_fundamental_frequencies
    ndim, nintvec, break_condition,
    i, freqs, As, amps, phis, nqs, ntot, rec, d, ffreq, ffreq_ixes, fff_ret,
    \* frecoder
    k, nu, A, phi, ab, fmax, steps,
    \* frequency
    runs, imode, smode, freq, fret,
    \* find_integer_vectors
    ffreqs, imax, d_nvec, err,
    \* the NAFF object and hanning_product
    t, self, u1, u2, hp_ret,
    \* the transform of frequency()
    xf, yf,
    \* gso and the residual of frecoder
    fk, e_i, prod, norm, ecap_k

otf_vars  == <<silently_fail, is_tube, otf_freqs, otf_d, otf_ixes, otf_ret>>
arg_vars  == <<ndim, nintvec, break_condition>>
fff_vars  == <<i, freqs, As, amps, phis, nqs, ntot, rec, d, ffreq, ffreq_ixes, fff_ret>>
frec_vars == <<k, nu, A, phi, ab, fmax, steps>>
freq_vars == <<runs, imode, smode, freq, fret>>
iv_vars   == <<ffreqs, imax, d_nvec, err>>
obj_vars  == <<t, self, u1, u2, hp_ret>>
peak_vars == <<xf, yf>>
gso_vars  == <<fk, e_i, prod, norm, ecap_k>>
ext_vars  == <<obj_vars, peak_vars, gso_vars>>
vars == <<pc, stack, entry, exc, otf_vars, arg_vars, fff_vars, frec_vars,
          freq_vars, iv_vars, obj_vars, peak_vars, gso_vars>>

----------------------------------------------------------------------------
(* Bounds of the model. *)

MaxNintvec == 3      \* largest nintvec of a direct frecoder call
MaxTable == 3        \* largest ndim * nintvec of a find_fundamental_frequencies call
MaxRows == 3         \* largest component table drawn for the selection
NData == 2           \* number of samples of the transform in frequency()
MaxImax == 1         \* largest imax of find_integer_vectors
MaxComp == 1         \* largest number of components given to find_integer_vectors
MaxM == 2            \* largest number of fundamentals given to find_integer_vectors
MaxGrid == 4         \* largest number of samples of a time grid given to NAFF(t)

(* Program constants. *)

FreqEps == 10        \* 1E-5, the nonzero-frequency guard
DiffEps == 1         \* 1E-6, the distinctness guard
Iter1 == 50          \* iteration cap of the first minimizer run
Iter2 == 100         \* iteration cap of the second minimizer run
NDimMax == 3         \* x, y, z

(* Python's None, and a value that is present. *)
None == [none |-> TRUE]
Some(v) == [none |-> FALSE, val |-> v]

(* The values the numerical primitives produce in the model. *)
FreqVals == {11, -14, 17}           \* refined frequencies (fmin_slsqp), units of 1e-6
AbVals == {<<2, 0>>, <<0, -1>>}     \* complex amplitudes (re, im) (hanning_product)
FmaxVals == {0, 3}                  \* residual peaks (sub_chi)
SpecVals == {-1, 0, 1}              \* scaled transform values xf, yf
BreakVals == {None, Some(0), Some(2), Some(9)}   \* break_condition of frecoder
KwargBreakVals == {None, Some(2)}   \* break_condition given through the callers
SelFreqVals == {10, 11, 14, -16}        \* frequencies of the tables drawn for the selection
IVFreqVals == {2, 3, -4}            \* fundamentals given to find_integer_vectors
IVCompVals == -6..6                 \* frequencies of its components

Abs(x) == IF x < 0 THEN -x ELSE x

Zeros(n) == [j \in 1..n |-> 0]

(* np.abs of a complex number on one of the axes. *)
CAbs(z) == Abs(z[1]) + Abs(z[2])

(* np.arctan2(im, re) of a complex number on one of the axes, in quarter turns. *)
Arctan2(im, re) ==
    IF im > 0 THEN 1
    ELSE IF im < 0 THEN -1
    ELSE IF re < 0 THEN 2 ELSE 0

(* The exceptions of the program. *)
RefinementError(im, sm) ==
    [type |-> "ValueError",
     msg |-> "Function minimization to find best frequency failed with:",
     imode |-> im, smode |-> sm]
MissingError == [type |-> "ValueError", msg |-> "Don't have x,y,z frequencies."]
IndexError == [type |-> "IndexError", msg |-> "index 0 is out of bounds"]
UnboundLocalError ==
    [type |-> "UnboundLocalError",
     msg |-> "local variable 'k' referenced before assignment"]

(* The message fmin_slsqp gives with an exit mode. *)
Smode(m) ==
    CASE m = 0 -> "Optimization terminated successfully."
      [] m = 8 -> "Positive directional derivative for linesearch"
      [] m = 9 -> "Iteration limit exceeded"

----------------------------------------------------------------------------
(* Calls, returns and exceptions. *)

Top(s) == s[Len(s)]
Pop(s) == SubSeq(s, 1, Len(s) - 1)

(* frecoder catches the failure of a step and returns what it has. *)
OnExceptionFrecoderCatches(frame) ==
    IF frame = "frecoder" THEN "frecoder_return"
    ELSE IF frame = "orbit_to_freqs" /\ silently_fail THEN "otf_except"
    ELSE "propagate"

(* orbit_to_freqs without its try/except. *)
OnExceptionNoHandler(frame) == "propagate"

(* Where control continues in `frame` when an exception arrives from a call
   it made: the handler of the frame, or "propagate" when it has none.  Only
   orbit_to_freqs has a try/except, around find_fundamental_frequencies, and
   only with silently_fail. *)
OnException(frame) ==
    IF frame = "orbit_to_freqs" /\ silently_fail THEN "otf_except"
    ELSE "propagate"

(* Where control continues in `frame` when the call it made returns. *)
OnReturn(frame) ==
    CASE frame = "orbit_to_freqs" -> "otf_assign"
      [] frame = "find_fundamental_frequencies" -> "fff_append"
      [] frame = "frecoder" -> "frecoder_step"

(* raise e, in the frame on top of the stack. *)
Raise(e) ==
    /\ exc' = Some(e)
    /\ pc' = "unwind"

(* The frame on top of the stack is left by an exception; the locals of
   frequency() go with its frame. *)
Unwind ==
    /\ pc = "unwind"
    /\ stack' = Pop(stack)
    /\ IF Len(stack) = 1
       THEN pc' = "raised"
       ELSE IF OnException(Top(Pop(stack))) = "propagate"
            THEN pc' = "unwind"
            ELSE pc' = OnException(Top(Pop(stack)))
    /\ IF Top(stack) = "frequency" /\ Len(stack) > 1
       THEN /\ runs' = <<>>
            /\ imode' = 0
            /\ smode' = ""
            /\ freq' = 0
            /\ UNCHANGED fret
       ELSE UNCHANGED freq_vars
    /\ UNCHANGED <<entry, exc, otf_vars, arg_vars, ext_vars, fff_vars, frec_vars, iv_vars>>

(* The pc after the frame on top of the stack returns. *)
ReturnPc == IF Len(stack) = 1 THEN "returned" ELSE OnReturn(Top(Pop(stack)))

----------------------------------------------------------------------------
(* NAFF.__init__ and NAFF.hanning_product *)

(* Complex numbers are pairs (re, im) of integers. *)
CMul(a, b) == <<a[1] * b[1] - a[2] * b[2], a[1] * b[2] + a[2] * b[1]>>
CSub(a, b) == <<a[1] - b[1], a[2] - b[2]>>
CConj(a) == <<a[1], -a[2]>>

(* A uniform time grid of n samples. *)
Grid(n, t0, dt) == [j \in 1..n |-> t0 + (j - 1) * dt]

(* 2*cos(pi*a/b), for the ratios a/b of a uniform grid of up to 5 samples. *)
Cos2(a, b) ==
    CASE a = 0 -> 2
      [] 3 * Abs(a) = b -> 1
      [] 2 * Abs(a) = b -> 0
      [] 3 * Abs(a) = 2 * b -> -1
      [] Abs(a) = b -> -2

(* hanning(x) of lines 29-30 at x = pi*a/b, twice its value. *)
Hanning2(a, b) == 2 + Cos2(a, b)

(* Lines 76-82: the object NAFF(tt) is, whatever the number of samples of
   tt.  ts, T and tz are kept as twice their values, chi too. *)
NAFF_init(tt) ==
    LET n == Len(tt)
        ts2 == tt[n] + tt[1]
        T2 == tt[n] - tt[1]
        tz2 == [j \in 1..n |-> 2 * tt[j] - ts2]
    IN  [t |-> tt, ts2 |-> ts2, T2 |-> T2, tz2 |-> tz2,
         chi2 |-> [j \in 1..n |-> Hanning2(tz2[j], T2)]]

(* The weights of scipy's simps on a uniform grid of n samples, in units of
   dx/12.  For an odd n they are those of Simpson's rule, 1 4 2 4 ... 4 1.
   For an even n simps does not fail: its `even` rule completes Simpson's
   rule on n-1 samples by an end interval, "avg" by the mean of a trapezoid
   at either end, "simpson" by a parabola through the last three samples. *)
OddW(n) == [j \in 1..n |-> IF j = 1 \/ j = n THEN 4 ELSE IF j % 2 = 0 THEN 16 ELSE 8]
EvenRules == {"avg", "simpson"}
EvenW(n, rule) ==
    LET first == [j \in 1..n |->      \* Simpson on 1..n-1, trapezoid on n-1..n
                    IF j = n THEN 6
                    ELSE OddW(n - 1)[j] + (IF j = n - 1 THEN 6 ELSE 0)]
        last == [j \in 1..n |->       \* trapezoid on 1..2, Simpson on 2..n
                   IF j = 1 THEN 6
                   ELSE OddW(n - 1)[j - 1] + (IF j = 2 THEN 6 ELSE 0)]
    IN  IF n = 2 THEN <<6, 6>>
        ELSE IF rule = "avg"
        THEN [j \in 1..n |-> (first[j] + last[j]) \div 2]
        ELSE [j \in 1..n |->
                 IF j = n THEN 5
                 ELSE OddW(n - 1)[j]
                      + (IF j = n - 1 THEN 8 ELSE IF j = n - 2 THEN -1 ELSE 0)]
SimpsW(n, rule) == IF n % 2 = 1 THEN OddW(n) ELSE EvenW(n, rule)

RECURSIVE RSum(_, _)
RSum(v, n) == IF n = 0 THEN 0 ELSE v[n] + RSum(v, n - 1)

(* The sum of a vector of complex numbers. *)
CSum(v) ==
    <<RSum([j \in 1..Len(v) |-> v[j][1]], Len(v)), RSum([j \in 1..Len(v) |-> v[j][2]], Len(v))>>

(* Lines 287-297: the integrand u1 * conj(u2) * chi, the integrals of its
   real and imaginary parts over tz by simps, divided by 2T.  The division
   is exact for samples that are multiples of 12 on grids of up to 5
   samples, and rounds down otherwise. *)
HanningProduct(v1, v2, obj, rule) ==
    LET n == Len(obj.tz2)
        dx2 == obj.tz2[2] - obj.tz2[1]
        w == SimpsW(n, rule)
        integ2 == [j \in 1..n |->
                     LET g == CMul(v1[j], CConj(v2[j]))
                     IN  <<g[1] * obj.chi2[j] * w[j], g[2] * obj.chi2[j] * w[j]>>]
        s == CSum(integ2)
    IN  <<(s[1] * dx2) \div (48 * obj.T2), (s[2] * dx2) \div (48 * obj.T2)>>

----------------------------------------------------------------------------
(* NAFF.frequency *)

(* np.max(xyf_abs, axis=0).argmax(): the first index of the largest of
   max(|xf|, |yf|). *)
ColMax(x, y, j) == IF Abs(x[j]) >= Abs(y[j]) THEN Abs(x[j]) ELSE Abs(y[j])

(* wmax when the argmax is taken over the real parts alone. *)
WmaxReal(x, y) ==
    CHOOSE j \in 1..NData :
        \A m \in 1..NData :
            \/ Abs(x[m]) < Abs(x[j])
            \/ Abs(x[m]) = Abs(x[j]) /\ j <= m

Wmax(x, y) ==
    CHOOSE j \in 1..NData :
        \A m \in 1..NData :
            \/ ColMax(x, y, m) < ColMax(x, y, j)
            \/ ColMax(x, y, m) = ColMax(x, y, j) /\ j <= m

(* The early return of frequency(): xf[wmax] is zero. *)
EarlyReturn(x, y) == x[Wmax(x, y)] = 0

(* The scaled transforms (xf, yf) of the series. *)
Transforms == [1..NData -> SpecVals] \X [1..NData -> SpecVals]

(* Whether line 122 takes the early return, over the transforms. *)
EarlyOutcomes == {EarlyReturn(tr[1], tr[2]) : tr \in Transforms}

(* Lines 96-131: the transform and the initial guess; 0. is returned when
   the real part at the peak is zero. *)
Frequency_FFT ==
    /\ pc = "frequency"
    /\ \E early \in EarlyOutcomes :
          IF early
          THEN /\ fret' = 0
               /\ pc' = "frequency_return"
          ELSE /\ pc' = "frequency_refine"
               /\ UNCHANGED fret
    /\ runs' = <<>>
    /\ UNCHANGED <<stack, entry, exc, otf_vars, arg_vars, ext_vars, fff_vars, frec_vars,
                   imode, smode, freq, iv_vars>>

(* One run of so.fmin_slsqp(phi_w, x0, iter): a refined frequency with exit
   mode 0, or a failure with a nonzero exit mode and the point it stopped at. *)
Minimize(x0, iter) ==
    { [x0 |-> x0, iter |-> iter, freq |-> f, imode |-> 0, smode |-> Smode(0)] :
        f \in FreqVals }
    \cup { [x0 |-> x0, iter |-> iter, freq |-> 17, imode |-> 8, smode |-> Smode(8)],
           [x0 |-> x0, iter |-> iter, freq |-> 11, imode |-> 9, smode |-> Smode(9)] }

(* The test that decides on a second run (line 188) and on the error (196). *)
Failed(m) == m # 0

(* The runs of the minimizer in one call: the first from the warm start
   init_w (lines 158-171), the second from 0.5 when the first failed (lines
   187-194). *)
MinimizerRuns ==
    UNION { IF Failed(r1.imode)
            THEN { <<r1, r2>> : r2 \in Minimize("0.5", Iter2) }
            ELSE { <<r1>> } : r1 \in Minimize("init_w", Iter1) }

(* The result of the last run is returned whatever its exit mode. *)
RaisesNever(last) == FALSE

(* What frequency() does with the last run (lines 196-212): TRUE to raise. *)
RaisesOn(last) == Failed(last.imode)

(* Lines 133-212: the refinement in the window around the guess. *)
Frequency_Refine ==
    /\ pc = "frequency_refine"
    /\ \E rs \in MinimizerRuns :
          LET last == rs[Len(rs)] IN
          /\ runs' = rs
          /\ freq' = last.freq
          /\ imode' = last.imode
          /\ smode' = last.smode
          /\ IF RaisesOn(last)
             THEN /\ Raise(RefinementError(last.imode, last.smode))
                  /\ UNCHANGED fret
             ELSE /\ fret' = last.freq
                  /\ pc' = "frequency_return"
                  /\ UNCHANGED exc
    /\ UNCHANGED <<stack, entry, otf_vars, arg_vars, ext_vars, fff_vars, frec_vars, iv_vars>>

(* frequency() returns fret to its caller; its locals go with its frame. *)
Frequency_Return ==
    /\ pc = "frequency_return"
    /\ pc' = ReturnPc
    /\ stack' = Pop(stack)
    /\ IF Len(stack) > 1
       THEN /\ runs' = <<>>
            /\ imode' = 0
            /\ smode' = ""
            /\ freq' = 0
       ELSE UNCHANGED <<runs, imode, smode, freq>>
    /\ UNCHANGED <<entry, exc, otf_vars, arg_vars, ext_vars, fff_vars, frec_vars, fret, iv_vars>>

----------------------------------------------------------------------------
(* NAFF.frecoder *)

(* Break with "and" for "or". *)
BreakBoth(bc, fm, a) == ~bc.none /\ (fm < bc.val /\ a < bc.val)

(* Line 267: the break condition, with the residual peak fm and the
   amplitude a of the step. *)
Break(bc, fm, a) == ~bc.none /\ (fm < bc.val \/ a < bc.val)

(* arr[:kk] for arr[:kk+1]. *)
UptoShort(arr, kk) == SubSeq(arr, 1, kk)

(* arr[:kk+1] of line 270. *)
Upto(arr, kk) == SubSeq(arr, 1, kk + 1)

Neg(arr) == [j \in 1..Len(arr) |-> -arr[j]]

(* self.frequency(fk) is called. *)
CallFrequency ==
    /\ stack' = Append(stack, "frequency")
    /\ pc' = "frequency"

(* Lines 234-243: the containers, and the first evaluation of the loop
   header; k stays unbound when range(nintvec) is empty. *)
Frecoder_Begin ==
    /\ pc = "frecoder"
    /\ nu' = Zeros(nintvec)
    /\ A' = Zeros(nintvec)
    /\ phi' = Zeros(nintvec)
    /\ steps' = 0
    /\ IF nintvec > 0
       THEN /\ k' = Some(0)
            /\ CallFrequency
       ELSE /\ k' = None
            /\ pc' = "frecoder_return"
            /\ UNCHANGED stack
    /\ UNCHANGED <<entry, exc, otf_vars, arg_vars, ext_vars, fff_vars, ab, fmax,
                   freq_vars, iv_vars>>

(* Lines 244-268 and the next evaluation of the loop header (243): the
   frequency of the step is stored, the amplitude ab is the projection on
   the new basis vector, sub_chi gives the residual and its peak fmax. *)
Frecoder_Step ==
    /\ pc = "frecoder_step"
    /\ nu' = [nu EXCEPT ![k.val + 1] = fret]
    /\ \E a \in AbVals, fm \in FmaxVals :
          /\ ab' = a
          /\ A' = [A EXCEPT ![k.val + 1] = CAbs(a)]
          /\ phi' = [phi EXCEPT ![k.val + 1] = Arctan2(a[2], a[1])]
          /\ fmax' = fm
          /\ IF Break(break_condition, fm, CAbs(a))
             THEN /\ pc' = "frecoder_return"
                  /\ UNCHANGED <<k, stack>>
             ELSE IF k.val + 1 < nintvec
                  THEN /\ k' = Some(k.val + 1)
                       /\ CallFrequency
                  ELSE /\ pc' = "frecoder_return"
                       /\ UNCHANGED <<k, stack>>
    /\ steps' = steps + 1
    /\ UNCHANGED <<entry, exc, otf_vars, arg_vars, ext_vars, fff_vars, freq_vars, iv_vars>>

(* Line 270: the slices up to k; k is unbound when the loop never ran.  The
   locals ab and fmax go with the frame. *)
Frecoder_Return ==
    /\ pc = "frecoder_return"
    /\ IF k.none
       THEN /\ Raise(UnboundLocalError)
            /\ UNCHANGED <<rec, stack>>
       ELSE /\ rec' = [nu |-> Neg(Upto(nu, k.val)), A |-> Upto(A, k.val),
                       phi |-> Upto(phi, k.val)]
            /\ pc' = ReturnPc
            /\ stack' = Pop(stack)
            /\ UNCHANGED exc
    /\ IF Len(stack) > 1 /\ ~k.none
       THEN /\ ab' = <<0, 0>>
            /\ fmax' = 0
       ELSE UNCHANGED <<ab, fmax>>
    /\ UNCHANGED <<entry, otf_vars, arg_vars, ext_vars, i, freqs, As, amps, phis, nqs, ntot,
                   d, ffreq, ffreq_ixes, fff_ret, k, nu, A, phi, steps, freq_vars,
                   iv_vars>>

----------------------------------------------------------------------------
(* NAFF.find_fundamental_frequencies *)

RECURSIVE Concat(_)
(* np.concatenate of a list of arrays. *)
Concat(list) ==
    IF list = <<>> THEN <<>> ELSE list[1] \o Concat(Tail(list))

(* Lines 370-376: the table of all components, one row per component, in
   the order of the dimensions and, in a dimension, of the extraction. *)
Table(fs, cs, ms, ps, ns) ==
    [j \in 1..Len(Concat(fs)) |->
        [freq |-> Concat(fs)[j], A |-> Concat(cs)[j], absA |-> Concat(ms)[j],
         phi |-> Concat(ps)[j], n |-> Concat(ns)[j]]]

MaxOf(S) == CHOOSE x \in S : \A y \in S : y <= x
MinOf(S) == CHOOSE x \in S : \A y \in S : x <= y

RECURSIVE DescOrders(_, _)
(* The orders of the indices J that put the values v in descending order:
   the first index has a largest value, the rest follows in the same way. *)
DescOrders(v, J) ==
    IF J = {} THEN {<<>>}
    ELSE UNION { { <<j>> \o rest : rest \in DescOrders(v, J \ {j}) } :
                 j \in {m \in J : v[m] = MaxOf({v[x] : x \in J})} }

(* Line 379: v.argsort()[::-1].  argsort is numpy's default sort, which is
   not stable: equal values may come out in any order. *)
ArgsortReversed(v) == DescOrders(v, 1..Len(v))

(* nqs.argsort() of lines 405 and 443: the orders that put v in ascending
   order. *)
Argsort(v) ==
    { p \in [1..Len(v) -> 1..Len(v)] :
        /\ \A a, b \in 1..Len(v) : a # b => p[a] # p[b]
        /\ \A a, b \in 1..Len(v) : a < b => v[p[a]] <= v[p[b]] }

(* arr[p], an array indexed by an array of indices. *)
Take(arr, p) == [j \in 1..Len(p) |-> arr[p[j]]]

(* The fundamentals are returned in the order they were picked. *)
ReorderNot(arr, o) == arr

(* ffreq[nqs.argsort()] and ffreq_ixes[nqs.argsort()] of lines 405 and 443:
   arr in the order o of the source dimensions. *)
Reorder(arr, o) == Take(arr, o)

(* The guards of the three selections (lines 387, 397-399, 430-434); r0 and
   r1 are the rows of the first and second fundamental. *)
Guard1(r) == Abs(r.freq) > FreqEps
Guard2(r, r0) ==
    /\ Abs(r.freq) > FreqEps
    /\ r.n # r0.n
    /\ Abs(Abs(r0.freq) - Abs(r.freq)) > DiffEps
Guard3(r, r0, r1) ==
    /\ Abs(r.freq) > FreqEps
    /\ r.n # r0.n
    /\ r.n # r1.n
    /\ Abs(Abs(r0.freq) - Abs(r.freq)) > DiffEps
    /\ Abs(Abs(r1.freq) - Abs(r.freq)) > DiffEps

(* ixes[-1] for ixes[0]. *)
LastIx(S) == MaxOf(S)

(* ixes[0] of the indices np.where found, in ascending order. *)
FirstIx(S) == MinOf(S)

(* Line 440: the check that the three fundamentals come from x, y and z. *)
HaveXYZ(ns) == {ns[j] : j \in 1..Len(ns)} = {0, 1, 2}

(* The outcome of a selection: the exception raised, if any, the locals
   ffreq, ffreq_ixes and nqs as the selection leaves them, and the returned
   (ffreq, ffreq_ixes) if any.  Indices into the table count from 0, as in
   the code. *)
Outcome(e, ff, fi, ns, r) ==
    [exc |-> e, ffreq |-> ff, ffreq_ixes |-> fi, nqs |-> ns, ret |-> r]

(* Lines 428-443, for ndim = 3. *)
SelectThird(dd, nd, ff, fi, ns) ==
    LET r0 == dd[fi[1] + 1]
        r1 == dd[fi[2] + 1]
        ixes == {j \in 1..Len(dd) : Guard3(dd[j], r0, r1)}
    IN  IF ixes = {}
        THEN {Outcome(Some(IndexError), ff, fi, ns, None)}
        ELSE LET p == FirstIx(ixes)
                 ff3 == [ff EXCEPT ![3] = dd[p].freq]
                 fi3 == [fi EXCEPT ![3] = p - 1]
                 ns3 == [ns EXCEPT ![3] = dd[p].n]
             IN  IF ~HaveXYZ(ns3)
                 THEN {Outcome(Some(MissingError), ff3, fi3, ns3, None)}
                 ELSE { Outcome(None, ff3, fi3, ns3,
                                Some([ffreq |-> Reorder(ff3, o), ixes |-> Reorder(fi3, o)])) :
                        o \in Argsort(ns3) }

(* Lines 395-405, and on to the third for ndim = 3. *)
SelectSecond(dd, nd, ff, fi, ns) ==
    LET r0 == dd[fi[1] + 1]
        ixes == {j \in 1..Len(dd) : Guard2(dd[j], r0)}
    IN  IF ixes = {}
        THEN {Outcome(Some(IndexError), ff, fi, ns, None)}
        ELSE LET p == FirstIx(ixes)
                 ff2 == [ff EXCEPT ![2] = dd[p].freq]
                 fi2 == [fi EXCEPT ![2] = p - 1]
                 ns2 == [ns EXCEPT ![2] = dd[p].n]
             IN  IF nd = 2
                 THEN { Outcome(None, ff2, fi2, ns2,
                                Some([ffreq |-> Reorder(ff2, o), ixes |-> Reorder(fi2, o)])) :
                        o \in Argsort(ns2) }
                 ELSE SelectThird(dd, nd, ff2, fi2, ns2)

(* Lines 381-393, and on to the second for ndim > 1: the outcomes of the
   selection on the sorted table dd. *)
Select(dd, nd) ==
    LET ixes == {j \in 1..Len(dd) : Guard1(dd[j])}
    IN  IF ixes = {}
        THEN {Outcome(Some(IndexError), Zeros(nd), Zeros(nd), Zeros(nd), None)}
        ELSE LET p == FirstIx(ixes)
                 ff1 == [Zeros(nd) EXCEPT ![1] = dd[p].freq]
                 fi1 == [Zeros(nd) EXCEPT ![1] = p - 1]
                 ns1 == [Zeros(nd) EXCEPT ![1] = dd[p].n]
             IN  IF nd = 1
                 THEN {Outcome(None, ff1, fi1, ns1,
                               Some([ffreq |-> ff1, ixes |-> fi1]))}
                 ELSE SelectSecond(dd, nd, ff1, fi1, ns1)

(* self.frecoder(fs[i], nintvec, break_condition) is called. *)
CallFrecoder ==
    /\ stack' = Append(stack, "frecoder")
    /\ pc' = "frecoder"

(* Lines 351-361: the containers, and the first evaluation of the loop
   header. *)
FFF_Begin ==
    /\ pc = "find_fundamental_frequencies"
    /\ freqs' = <<>>
    /\ As' = <<>>
    /\ amps' = <<>>
    /\ phis' = <<>>
    /\ nqs' = <<>>
    /\ ntot' = 0
    /\ IF 0 < ndim
       THEN /\ i' = 0
            /\ CallFrecoder
       ELSE /\ pc' = "fff_select"
            /\ UNCHANGED <<i, stack>>
    /\ UNCHANGED <<entry, exc, otf_vars, arg_vars, ext_vars, rec, d, ffreq, ffreq_ixes, fff_ret,
                   frec_vars, freq_vars, iv_vars>>

(* The frequencies of frecoder go into the table as they are. *)
TableFreqsAsReturned(returned) == returned

(* The frequencies of frecoder as they go into the table: freqs.append(-nu)
   of line 363. *)
TableFreqs(returned) == Neg(returned)

(* Lines 362-368 and the next evaluation of the loop header (361): what
   frecoder returned, rec = (nu, A, phi), goes into the containers. *)
FFF_Append ==
    /\ pc = "fff_append"
    /\ freqs' = Append(freqs, TableFreqs(rec.nu))
    /\ As' = Append(As, [j \in 1..Len(rec.A) |-> <<rec.A[j], rec.phi[j]>>])
    /\ amps' = Append(amps, rec.A)
    /\ phis' = Append(phis, rec.phi)
    /\ nqs' = Append(nqs, [j \in 1..Len(rec.nu) |-> i])
    /\ ntot' = ntot + Len(rec.nu)
    /\ IF i + 1 < ndim
       THEN /\ i' = i + 1
            /\ CallFrecoder
       ELSE /\ pc' = "fff_select"
            /\ UNCHANGED <<i, stack>>
    /\ UNCHANGED <<entry, exc, otf_vars, arg_vars, ext_vars, rec, d, ffreq, ffreq_ixes, fff_ret,
                   frec_vars, freq_vars, iv_vars>>

(* Lines 370-443: the table is built and sorted by descending amplitude,
   and the fundamentals are selected from it. *)
FFF_Select ==
    /\ pc = "fff_select"
    /\ LET tab == Table(freqs, As, amps, phis, nqs) IN
       \E order \in ArgsortReversed([j \in 1..Len(tab) |-> tab[j].absA]) :
          \E o \in Select(Take(tab, order), ndim) :
             /\ d' = Take(tab, order)
             /\ ffreq' = o.ffreq
             /\ ffreq_ixes' = o.ffreq_ixes
             /\ nqs' = o.nqs
             /\ IF o.exc.none
                THEN /\ fff_ret' = Some([ffreq |-> o.ret.val.ffreq, d |-> Take(tab, order),
                                         ixes |-> o.ret.val.ixes])
                     /\ pc' = ReturnPc
                     /\ stack' = Pop(stack)
                     /\ UNCHANGED exc
                ELSE /\ Raise(o.exc.val)
                     /\ UNCHANGED <<fff_ret, stack>>
    /\ UNCHANGED <<entry, otf_vars, arg_vars, ext_vars, i, freqs, As, amps, phis, ntot, rec,
                   frec_vars, freq_vars, iv_vars>>

----------------------------------------------------------------------------
(* orbit_to_freqs *)

(* A float of the returned frequencies: a number, or NaN. *)
NaN == [nan |-> TRUE]
Fin(x) == [nan |-> FALSE, val |-> x]

(* np.ones(3)*np.nan *)
NaNs == [j \in 1..NDimMax |-> NaN]

(* Lines 492-511 and the call of lines 515, 520, 531 or 535: the orbit is
   classified, d and ixes start as None, and the three series of the
   chosen coordinates go to find_fundamental_frequencies. *)
OTF_Begin ==
    /\ pc = "orbit_to_freqs"
    /\ \E force_box \in BOOLEAN, circ \in BOOLEAN :
          is_tube' = IF force_box THEN FALSE ELSE circ
    /\ otf_d' = None
    /\ otf_ixes' = None
    /\ stack' = Append(stack, "find_fundamental_frequencies")
    /\ pc' = "find_fundamental_frequencies"
    /\ UNCHANGED <<entry, exc, silently_fail, otf_freqs, otf_ret, arg_vars, ext_vars, fff_vars,
                   frec_vars, freq_vars, iv_vars>>

(* The call returned: the assignment of lines 515, 520, 531 or 535, then
   lines 522 or 537, and the return of line 539. *)
OTF_Assign ==
    /\ pc = "otf_assign"
    /\ otf_freqs' = [j \in 1..Len(fff_ret.val.ffreq) |-> Fin(fff_ret.val.ffreq[j])]
    /\ otf_d' = Some(fff_ret.val.d)
    /\ otf_ixes' = Some(fff_ret.val.ixes)
    /\ otf_ret' = Some([freqs |-> otf_freqs', d |-> otf_d', ixes |-> otf_ixes',
                        is_tube |-> is_tube])
    /\ pc' = ReturnPc
    /\ stack' = Pop(stack)
    /\ UNCHANGED <<entry, exc, silently_fail, is_tube, arg_vars, ext_vars, fff_vars,
                   frec_vars, freq_vars, iv_vars>>

(* The call raised inside the try: the except clause of lines 516-517 or
   532-533, then lines 522 or 537, and the return of line 539. *)
OTF_Except ==
    /\ pc = "otf_except"
    /\ otf_freqs' = NaNs
    /\ otf_ret' = Some([freqs |-> otf_freqs', d |-> otf_d, ixes |-> otf_ixes,
                        is_tube |-> is_tube])
    /\ pc' = ReturnPc
    /\ stack' = Pop(stack)
    /\ UNCHANGED <<entry, exc, silently_fail, is_tube, otf_d, otf_ixes, arg_vars, ext_vars,
                   fff_vars, frec_vars, freq_vars, iv_vars>>

----------------------------------------------------------------------------
(* The calls of a caller. *)

(* The object the methods are called on: NAFF(t) on a grid of NData samples. *)
Object ==
    /\ t = Grid(NData, 0, 1)
    /\ self = Some(NAFF_init(t))

(* What is not followed in a run: the vectors of a hanning_product, the
   transform of frequency(), the residual and the basis of frecoder. *)
ExtUnset ==
    /\ u1 = <<>> /\ u2 = <<>> /\ hp_ret = None
    /\ xf = <<>> /\ yf = <<>>
    /\ fk = <<>> /\ e_i = <<>> /\ prod = None /\ norm = None /\ ecap_k = <<>>

(* The locals of the functions before the call. *)
Locals ==
    /\ exc = None
    /\ is_tube = FALSE /\ otf_freqs = <<>> /\ otf_d = None /\ otf_ixes = None
    /\ otf_ret = None
    /\ i = 0 /\ freqs = <<>> /\ As = <<>> /\ amps = <<>> /\ phis = <<>> /\ nqs = <<>>
    /\ ntot = 0 /\ rec = [nu |-> <<>>, A |-> <<>>, phi |-> <<>>]
    /\ d = <<>> /\ ffreq = <<>> /\ ffreq_ixes = <<>> /\ fff_ret = None
    /\ k = None /\ nu = <<>> /\ A = <<>> /\ phi = <<>> /\ ab = <<0, 0>> /\ fmax = 0
    /\ steps = 0
    /\ runs = <<>> /\ imode = 0 /\ smode = "" /\ freq = 0 /\ fret = 0
    /\ ffreqs = <<>> /\ imax = 0 /\ d_nvec = <<>> /\ err = <<>>

(* The variables before the call, but for the arguments. *)
Fresh == Locals /\ Object /\ ExtUnset

(* naff.frequency(f) *)
InitFrequency ==
    /\ entry = "frequency"
    /\ silently_fail = FALSE /\ ndim = 0 /\ nintvec = 0 /\ break_condition = None

(* naff.frecoder(f, nintvec, break_condition) *)
InitFrecoder ==
    /\ entry = "frecoder"
    /\ silently_fail = FALSE /\ ndim = 0
    /\ nintvec \in 0..MaxNintvec
    /\ break_condition \in BreakVals

(* naff.find_fundamental_frequencies(fs, nintvec, imax, break_condition),
   with ndim = len(fs) *)
InitFFF ==
    /\ entry = "find_fundamental_frequencies"
    /\ silently_fail = FALSE
    /\ ndim \in 1..NDimMax
    /\ nintvec \in 0..MaxTable
    /\ ndim * nintvec <= MaxTable
    /\ break_condition \in KwargBreakVals

(* orbit_to_freqs(t, w, force_box, silently_fail, **kwargs), which gives
   three series and the kwargs to find_fundamental_frequencies *)
InitOTF ==
    /\ entry = "orbit_to_freqs"
    /\ silently_fail \in BOOLEAN
    /\ ndim = NDimMax
    /\ nintvec \in 0..MaxTable
    /\ ndim * nintvec <= MaxTable
    /\ break_condition \in KwargBreakVals

Init ==
    /\ InitFrequency \/ InitFrecoder \/ InitFFF \/ InitOTF
    /\ stack = <<entry>>
    /\ pc = entry
    /\ Fresh

Next ==
    \/ Frequency_FFT
    \/ Frequency_Refine
    \/ Frequency_Return
    \/ Frecoder_Begin
    \/ Frecoder_Step
    \/ Frecoder_Return
    \/ FFF_Begin
    \/ FFF_Append
    \/ FFF_Select
    \/ OTF_Begin
    \/ OTF_Assign
    \/ OTF_Except
    \/ Unwind

Spec == Init /\ [][Next]_vars

----------------------------------------------------------------------------
(* The selection of find_fundamental_frequencies on every component table:
   the call is taken up at line 370, when frecoder has run on every
   dimension, with the containers holding any components. *)

RECURSIVE Sum(_)
Sum(v) == IF v = <<>> THEN 0 ELSE v[1] + Sum(Tail(v))

(* The rows lo+1 .. lo+n of flat, read through f. *)
Slice(flat, lo, n) == [j \in 1..n |-> flat[lo + j]]

(* The containers of lines 362-367 when dimension m gave lens[m]
   components, the components being those of flat, in order. *)
Split(flat, lens) ==
    [m \in 1..Len(lens) |-> Slice(flat, Sum(SubSeq(lens, 1, m - 1)), lens[m])]

InitSelect ==
    /\ entry = "find_fundamental_frequencies"
    /\ stack = <<entry>>
    /\ pc = "fff_select"
    /\ silently_fail = FALSE /\ nintvec = MaxRows /\ break_condition = Some(2)
    /\ ndim \in 1..NDimMax
    /\ \E n \in 1..MaxRows :
       \E lens \in [1..ndim -> 1..n] :
       \E flat \in [1..n -> SelFreqVals \X AbVals] :
          /\ Sum(lens) = n
          /\ LET c == Split(flat, lens) IN
             /\ freqs = [m \in 1..ndim |-> [j \in 1..lens[m] |-> c[m][j][1]]]
             /\ amps = [m \in 1..ndim |-> [j \in 1..lens[m] |-> CAbs(c[m][j][2])]]
             /\ phis = [m \in 1..ndim |->
                          [j \in 1..lens[m] |-> Arctan2(c[m][j][2][2], c[m][j][2][1])]]
             /\ As = [m \in 1..ndim |->
                        [j \in 1..lens[m] |->
                            <<CAbs(c[m][j][2]), Arctan2(c[m][j][2][2], c[m][j][2][1])>>]]
             /\ nqs = [m \in 1..ndim |-> [j \in 1..lens[m] |-> m - 1]]
             /\ ntot = n
             /\ rec = [nu |-> Neg(freqs[ndim]), A |-> amps[ndim], phi |-> phis[ndim]]
    /\ i = ndim - 1
    /\ exc = None
    /\ is_tube = FALSE /\ otf_freqs = <<>> /\ otf_d = None /\ otf_ixes = None
    /\ otf_ret = None
    /\ d = <<>> /\ ffreq = <<>> /\ ffreq_ixes = <<>> /\ fff_ret = None
    /\ k = None /\ nu = <<>> /\ A = <<>> /\ phi = <<>> /\ ab = <<0, 0>> /\ fmax = 0
    /\ steps = 0
    /\ runs = <<>> /\ imode = 0 /\ smode = "" /\ freq = 0 /\ fret = 0
    /\ ffreqs = <<>> /\ imax = 0 /\ d_nvec = <<>> /\ err = <<>>
    /\ Object /\ ExtUnset

NextSelect ==
    \/ FFF_Select
    \/ Unwind

SpecSelect == InitSelect /\ [][NextSelect]_vars

----------------------------------------------------------------------------
(* NAFF.find_integer_vectors *)

(* nvecs of line 453: the integer vectors of {-im..im}^m, the first
   component running fastest. *)
Nvecs(m, im) ==
    [x \in 1..((2 * im + 1) ^ m) |->
        [c \in 1..m |-> (((x - 1) \div ((2 * im + 1) ^ (c - 1))) % (2 * im + 1)) - im]]

RECURSIVE Dot(_, _)
(* nvec.dot(ffreqs) *)
Dot(a, b) == IF a = <<>> THEN 0 ELSE a[1] * b[1] + Dot(Tail(a), Tail(b))

(* this_err with the sign of the combination wrong. *)
ThisErrPlus(f, nvecs, ff) == [x \in 1..Len(nvecs) |-> Abs(f + Dot(nvecs[x], ff))]

(* this_err of line 459, for a component of frequency f. *)
ThisErr(f, nvecs, ff) == [x \in 1..Len(nvecs) |-> Abs(f - Dot(nvecs[x], ff))]

(* v.argmin(): the first index of the smallest value. *)
Argmin(v) ==
    CHOOSE x \in 1..Len(v) :
        \A y \in 1..Len(v) : v[x] < v[y] \/ (v[x] = v[y] /\ x <= y)

(* Lines 448-463. *)
FindIntegerVectors ==
    /\ pc = "find_integer_vectors"
    /\ LET nvecs == Nvecs(Len(ffreqs), imax) IN
       /\ err' = [j \in 1..Len(d) |->
                    ThisErr(d[j].freq, nvecs, ffreqs)[Argmin(ThisErr(d[j].freq, nvecs, ffreqs))]]
       /\ d_nvec' = [j \in 1..Len(d) |->
                       nvecs[Argmin(ThisErr(d[j].freq, nvecs, ffreqs))]]
    /\ pc' = ReturnPc
    /\ stack' = Pop(stack)
    /\ UNCHANGED <<entry, exc, otf_vars, arg_vars, ext_vars, fff_vars, frec_vars, freq_vars,
                   ffreqs, imax>>

(* naff.find_integer_vectors(ffreqs, d, imax) *)
InitIntVec ==
    /\ entry = "find_integer_vectors"
    /\ stack = <<entry>>
    /\ pc = entry
    /\ silently_fail = FALSE /\ ndim = 0 /\ nintvec = 0 /\ break_condition = None
    /\ imax \in 1..MaxImax
    /\ \E m \in 1..MaxM : ffreqs \in [1..m -> IVFreqVals]
    /\ \E n \in 1..MaxComp :
          d \in [1..n -> [freq : IVCompVals, A : {<<1, 0>>}, absA : {1}, phi : {0},
                          n : {0}]]
    /\ exc = None
    /\ is_tube = FALSE /\ otf_freqs = <<>> /\ otf_d = None /\ otf_ixes = None
    /\ otf_ret = None
    /\ i = 0 /\ freqs = <<>> /\ As = <<>> /\ amps = <<>> /\ phis = <<>> /\ nqs = <<>>
    /\ ntot = 0 /\ rec = [nu |-> <<>>, A |-> <<>>, phi |-> <<>>]
    /\ ffreq = <<>> /\ ffreq_ixes = <<>> /\ fff_ret = None
    /\ k = None /\ nu = <<>> /\ A = <<>> /\ phi = <<>> /\ ab = <<0, 0>> /\ fmax = 0
    /\ steps = 0
    /\ runs = <<>> /\ imode = 0 /\ smode = "" /\ freq = 0 /\ fret = 0
    /\ d_nvec = <<>> /\ err = <<>>
    /\ Object /\ ExtUnset

NextIntVec == FindIntegerVectors

SpecIntVec == InitIntVec /\ [][NextIntVec]_vars

----------------------------------------------------------------------------
(* NAFF(t) on any uniform grid, and a hanning_product on the object. *)

HPVals == {<<12, 0>>, <<0, 12>>}    \* samples of the vectors u1, u2 and of a series f
GridStarts == {0, 1}                \* t[0]
GridSteps == {1, 2}                 \* t[1] - t[0]

(* Lines 76-82: __init__ stores the grid and what derives from it, and
   returns; it has no check of the number of samples and no raise. *)
NAFF_Construct ==
    /\ pc = "NAFF.__init__"
    /\ self' = Some(NAFF_init(t))
    /\ pc' = "hanning_product"
    /\ stack' = <<"hanning_product">>
    /\ UNCHANGED <<entry, exc, otf_vars, arg_vars, fff_vars, frec_vars, freq_vars,
                   iv_vars, t, u1, u2, hp_ret, peak_vars, gso_vars>>

(* Lines 287-297: naff.hanning_product(u1, u2) on two vectors given on the
   grid. *)
HanningProduct_Call ==
    /\ pc = "hanning_product"
    /\ \E a, b \in [1..Len(self.val.t) -> HPVals], rule \in EvenRules :
          /\ u1' = a
          /\ u2' = b
          /\ hp_ret' = Some(HanningProduct(a, b, self.val, rule))
    /\ pc' = "returned"
    /\ stack' = Pop(stack)
    /\ UNCHANGED <<entry, exc, otf_vars, arg_vars, fff_vars, frec_vars, freq_vars,
                   iv_vars, t, self, peak_vars, gso_vars>>

InitGrid ==
    /\ entry = "NAFF.__init__"
    /\ stack = <<entry>>
    /\ pc = entry
    /\ silently_fail = FALSE /\ ndim = 0 /\ nintvec = 0 /\ break_condition = None
    /\ \E n \in 2..MaxGrid, t0 \in GridStarts, dt \in GridSteps : t = Grid(n, t0, dt)
    /\ self = None
    /\ Locals /\ ExtUnset

NextGrid ==
    \/ NAFF_Construct
    \/ HanningProduct_Call

SpecGrid == InitGrid /\ [][NextGrid]_vars

----------------------------------------------------------------------------
(* naff.frequency(f) with the transform followed. *)

(* Lines 96-116: the transform of f, scaled and with alternating signs. *)
Frequency_Transform ==
    /\ pc = "frequency_transform"
    /\ \E tr \in Transforms :
          /\ xf' = tr[1]
          /\ yf' = tr[2]
    /\ pc' = "frequency_peak"
    /\ UNCHANGED <<stack, entry, exc, otf_vars, arg_vars, fff_vars, frec_vars,
                   freq_vars, iv_vars, obj_vars, gso_vars>>

(* Lines 118-135: the peak of max(|xf|, |yf|); 0. is returned when the real
   part at the peak is zero, and otherwise xf and yf become the parts of the
   series f for the refinement. *)
Frequency_Peak ==
    /\ pc = "frequency_peak"
    /\ IF EarlyReturn(xf, yf)
       THEN /\ fret' = 0
            /\ pc' = "frequency_return"
            /\ UNCHANGED <<xf, yf>>
       ELSE /\ xf' = [j \in 1..Len(fk) |-> fk[j][1]]
            /\ yf' = [j \in 1..Len(fk) |-> fk[j][2]]
            /\ pc' = "frequency_refine"
            /\ UNCHANGED fret
    /\ runs' = <<>>
    /\ UNCHANGED <<stack, entry, exc, otf_vars, arg_vars, fff_vars, frec_vars,
                   imode, smode, freq, iv_vars, obj_vars, gso_vars>>

(* naff.frequency(f) on a series f of NData samples *)
InitPeak ==
    /\ InitFrequency
    /\ stack = <<entry>>
    /\ pc = "frequency_transform"
    /\ Locals /\ Object
    /\ u1 = <<>> /\ u2 = <<>> /\ hp_ret = None
    /\ xf = <<>> /\ yf = <<>>
    /\ fk \in [1..NData -> HPVals]
    /\ e_i = <<>> /\ prod = None /\ norm = None /\ ecap_k = <<>>

NextPeak ==
    \/ Frequency_Transform
    \/ Frequency_Peak
    \/ Frequency_Refine
    \/ Frequency_Return
    \/ Unwind

SpecPeak == InitPeak /\ [][NextPeak]_vars

----------------------------------------------------------------------------
(* NAFF.gso, and the step of frecoder that calls it: frecoder is taken up at
   line 250, at a step k >= 1, with the residual fk of the steps before. *)

FkVecs(n) ==                          \* residuals fk, real or imaginary
    [1..n -> {<<12, 0>>, <<-12, 0>>}] \cup {[j \in 1..n |-> <<0, 12>>]}
EiVecs(n) == [1..n -> {<<0, 0>>, <<12, 0>>}]    \* e_i of line 325
NormVals == {<<1, 0>>, <<2, 0>>}      \* 1. / np.sqrt(prod) for a prod that is not zero

(* np.inf: numpy's division of 1. by a zero complex scalar warns and gives
   an infinite value; it does not raise. *)
Inf == [inf |-> TRUE]

(* Line 330: the values of 1. / np.sqrt(p). *)
InvSqrt(p) == IF p = <<0, 0>> THEN {Inf} ELSE NormVals

(* Lines 330-332: norm, given the value n0 of line 330. *)
Norm(p, n0) == IF p = <<0, 0>> THEN <<0, 0>> ELSE n0

(* e_i is returned as it is. *)
ScaleNot(v, z) == v

(* v * z, a vector by a complex scalar. *)
Scale(v, z) == [j \in 1..Len(v) |-> CMul(v[j], z)]

(* Lines 316-334: the vector e_i orthogonal to the basis so far, its self
   product, the norm, and the return of e_i*norm to line 250. *)
Gso ==
    /\ pc = "gso"
    /\ \E e \in EiVecs(Len(self.val.t)), rule \in EvenRules :
          \E p \in {HanningProduct(e, e, self.val, rule)} :
          \E n0 \in InvSqrt(p) :
             /\ e_i' = e
             /\ prod' = Some(p)
             /\ norm' = Some(Norm(p, n0))
             /\ ecap_k' = Scale(e, Norm(p, n0))
    /\ pc' = "frecoder_project"
    /\ stack' = Pop(stack)
    /\ UNCHANGED <<entry, exc, otf_vars, arg_vars, fff_vars, frec_vars, freq_vars,
                   iv_vars, obj_vars, peak_vars, fk>>

(* Lines 253-268 and the next evaluation of the loop header (243), with
   hanning_product (287-297) and sub_chi (338-343) computed on the vectors. *)
Frecoder_Project ==
    /\ pc = "frecoder_project"
    /\ \E rule \in EvenRules :
          \E a \in {HanningProduct(fk, ecap_k, self.val, rule)} :
          LET f_k == [j \in 1..Len(fk) |-> CSub(fk[j], CMul(a, ecap_k[j]))]
              fm == MaxOf({CAbs(f_k[j]) : j \in 1..Len(f_k)})
          IN  /\ ab' = a
              /\ A' = [A EXCEPT ![k.val + 1] = CAbs(a)]
              /\ phi' = [phi EXCEPT ![k.val + 1] = Arctan2(a[2], a[1])]
              /\ fk' = f_k
              /\ fmax' = fm
              /\ IF Break(break_condition, fm, CAbs(a))
                 THEN /\ pc' = "frecoder_return"
                      /\ UNCHANGED <<k, stack>>
                 ELSE IF k.val + 1 < nintvec
                      THEN /\ k' = Some(k.val + 1)
                           /\ CallFrequency
                      ELSE /\ pc' = "frecoder_return"
                           /\ UNCHANGED <<k, stack>>
    /\ steps' = steps + 1
    /\ UNCHANGED <<entry, exc, otf_vars, arg_vars, fff_vars, nu, freq_vars, iv_vars,
                   obj_vars, peak_vars, e_i, prod, norm, ecap_k>>

(* naff.frecoder(f, nintvec, break_condition) at the call of gso of step k *)
InitGso ==
    /\ entry = "frecoder"
    /\ stack = <<"frecoder", "gso">>
    /\ pc = "gso"
    /\ silently_fail = FALSE /\ ndim = 0
    /\ nintvec \in 2..MaxNintvec
    /\ break_condition \in BreakVals
    /\ \E n \in 3..MaxGrid :
          /\ t = Grid(n, 0, 1)
          /\ fk \in FkVecs(n)
    /\ self = Some(NAFF_init(t))
    /\ \E kk \in 1..(nintvec - 1) :
          /\ k = Some(kk)
          /\ steps = kk
          /\ nu = [j \in 1..nintvec |-> IF j <= kk + 1 THEN 11 ELSE 0]
          /\ A = [j \in 1..nintvec |-> IF j <= kk THEN 2 ELSE 0]
          /\ phi = Zeros(nintvec)
    /\ ab = <<2, 0>> /\ fmax = 3
    /\ exc = None
    /\ is_tube = FALSE /\ otf_freqs = <<>> /\ otf_d = None /\ otf_ixes = None
    /\ otf_ret = None
    /\ i = 0 /\ freqs = <<>> /\ As = <<>> /\ amps = <<>> /\ phis = <<>> /\ nqs = <<>>
    /\ ntot = 0 /\ rec = [nu |-> <<>>, A |-> <<>>, phi |-> <<>>]
    /\ d = <<>> /\ ffreq = <<>> /\ ffreq_ixes = <<>> /\ fff_ret = None
    /\ runs = <<>> /\ imode = 0 /\ smode = "" /\ freq = 0 /\ fret = 11
    /\ ffreqs = <<>> /\ imax = 0 /\ d_nvec = <<>> /\ err = <<>>
    /\ u1 = <<>> /\ u2 = <<>> /\ hp_ret = None
    /\ xf = <<>> /\ yf = <<>>
    /\ e_i = <<>> /\ prod = None /\ norm = None /\ ecap_k = <<>>

NextGso ==
    \/ Gso
    \/ Frecoder_Project
    \/ Frecoder_Return

SpecGso == InitGso /\ [][NextGso]_vars

----------------------------------------------------------------------------
(* Properties of frequency, frecoder, find_fundamental_frequencies and
   orbit_to_freqs, under Spec. *)

Terminal == pc \in {"returned", "raised"}

(* frecoder has returned rec to its caller, and its locals are as it left
   them. *)
FrecoderReturned ==
    \/ pc = "fff_append"
    \/ pc = "returned" /\ entry = "frecoder"

(* The exception of the run is the refinement failure of frequency(). *)
RefinementFailure ==
    /\ ~exc.none
    /\ exc.val.msg = "Function minimization to find best frequency failed with:"

(* C1: frecoder stops after completing step k if and only if k = nintvec-1
   or break_condition is not None and the residual peak fmax or the
   amplitude A[k] of the step is below it.  So a break_condition above every
   residual peak stops after exactly one iteration, and a break_condition of
   0 (or None) runs all nintvec iterations. *)
C1_StopRule ==
    /\ [][pc = "frecoder_step" =>
            ((pc' = "frecoder_return") <=>
                \/ k.val = nintvec - 1
                \/ /\ break_condition # None
                   /\ \/ fmax' < break_condition.val
                      \/ A'[k.val + 1] < break_condition.val)]_vars
    /\ [](pc = "frecoder_return" /\ ~k.none =>
            /\ steps = k.val + 1
            /\ (break_condition # None /\ \A v \in FmaxVals : v < break_condition.val)
                  => steps = 1
            /\ (break_condition = None \/ break_condition = Some(0))
                  => steps = nintvec)

(* frecoder converged at its second step of three, on the amplitude. *)
C1_Witness ==
    /\ pc = "frecoder_return" /\ entry = "frecoder"
    /\ nintvec = 3 /\ steps = 2 /\ k = Some(1)
    /\ break_condition = Some(2) /\ fmax = 3 /\ A[2] = 1

(* C2: when frecoder returns, the three returned arrays have the same
   length L, L <= nintvec, L is the number of iterations completed, and
   they hold the component of every completed iteration, the one that
   stopped the loop included. *)
C2_ReturnedLength ==
    FrecoderReturned =>
        /\ Len(rec.nu) = Len(rec.A)
        /\ Len(rec.A) = Len(rec.phi)
        /\ Len(rec.nu) <= nintvec
        /\ Len(rec.nu) = steps
        /\ \A j \in 1..steps :
              rec.nu[j] = -nu[j] /\ rec.A[j] = A[j] /\ rec.phi[j] = phi[j]

(* frecoder returned two components of three after an early stop. *)
C2_Witness ==
    /\ pc = "returned" /\ entry = "frecoder"
    /\ nintvec = 3 /\ steps = 2 /\ Len(rec.nu) = 2
    /\ rec.A[2] = 1 /\ break_condition = Some(2)

(* C3: the minimizer runs at most twice in a call of frequency: first from
   the warm start with 50 iterations, then from 0.5 with 100 iterations and
   only when the first run failed; when the second fails too the call
   raises the error with the status and message of that run; a returned
   value is 0. of the early return or the result of a run with status 0. *)
C3_Refinement ==
    /\ Len(runs) <= 2
    /\ Len(runs) >= 1 => runs[1].x0 = "init_w" /\ runs[1].iter = 50
    /\ Len(runs) = 2 =>
          runs[1].imode # 0 /\ runs[2].x0 = "0.5" /\ runs[2].iter = 100
    /\ pc = "frequency_return" =>
          \/ runs = <<>> /\ fret = 0
          \/ /\ runs # <<>>
             /\ runs[Len(runs)].imode = 0
             /\ fret = runs[Len(runs)].freq
    /\ (runs # <<>> /\ runs[Len(runs)].imode # 0) =>
          /\ Len(runs) = 2
          /\ pc \in {"unwind", "raised"}
          /\ exc = Some([type |-> "ValueError",
                         msg |-> "Function minimization to find best frequency failed with:",
                         imode |-> runs[2].imode, smode |-> runs[2].smode])

(* frequency raises after two failed runs with different exit modes. *)
C3_Witness ==
    /\ pc = "unwind" /\ Top(stack) = "frequency"
    /\ Len(runs) = 2 /\ runs[1].imode = 8 /\ runs[2].imode = 9
    /\ exc.val.imode = 9

(* C4: a refinement failure at any step of frecoder leaves frecoder and
   find_fundamental_frequencies by that exception: control never goes back
   into their bodies, frecoder returns no components for that call, no
   table is built and no fundamentals are returned. *)
C4_FailurePropagates ==
    RefinementFailure =>
        /\ pc \in {"unwind", "raised", "otf_except", "returned"}
        /\ pc \in {"otf_except", "returned"} =>
              entry = "orbit_to_freqs" /\ silently_fail
        /\ fff_ret = None
        /\ d = <<>>
        /\ Len(freqs) <= i
        /\ entry = "frecoder" => rec.nu = <<>>
        /\ exc.val.imode # 0

(* find_fundamental_frequencies raised the failure of the second step of
   frecoder. *)
C4_Witness ==
    /\ pc = "raised" /\ entry = "find_fundamental_frequencies"
    /\ RefinementFailure
    /\ k = Some(1) /\ steps = 1

(* C8: the frequency frecoder records for a component is the negative of
   the search frequency of its step, and find_fundamental_frequencies
   negates it again: the 'freq' of the component in the table is the search
   frequency nu_k itself, the negative of what frecoder recorded. *)
C8_TableSign ==
    /\ pc = "fff_append" => \A j \in 1..Len(rec.nu) : rec.nu[j] = -nu[j]
    /\ (freqs # <<>> /\ (pc = "frecoder" \/ Len(freqs) = ndim)) =>
          /\ Len(freqs[Len(freqs)]) = Len(rec.nu)
          /\ \A j \in 1..Len(rec.nu) :
                /\ freqs[Len(freqs)][j] = -rec.nu[j]
                /\ freqs[Len(freqs)][j] = nu[j]
    /\ d # <<>> =>
          \A m \in 1..ndim : \A x \in FreqVals \cup {0} :
              Cardinality({j \in 1..Len(d) : d[j].n = m - 1 /\ d[j].freq = x})
                = Cardinality({j \in 1..Len(freqs[m]) : freqs[m][j] = x})

(* A table whose component of the last dimension has the frequency 11 that
   frequency() found, where frecoder recorded -11. *)
C8_Witness ==
    /\ pc = "returned" /\ entry = "find_fundamental_frequencies"
    /\ \E j \in 1..Len(d) : d[j].n = ndim - 1 /\ d[j].freq = 11
    /\ \E j \in 1..Len(rec.nu) : rec.nu[j] = -11 /\ nu[j] = 11

(* C8 as claimed: the 'freq' of the components of the last dimension in the
   table are the values frecoder recorded for them. *)
C8_AsClaimed ==
    d # <<>> =>
        \A x \in {-17, -14, -11, 0, 11, 14, 17} :
            Cardinality({j \in 1..Len(d) : d[j].n = ndim - 1 /\ d[j].freq = x})
              = Cardinality({j \in 1..Len(rec.nu) : rec.nu[j] = x})

(* C10: orbit_to_freqs with silently_fail returns three NaNs, d = None,
   ixes = None and is_tube when find_fundamental_frequencies fails, and
   never raises; without silently_fail the failure reaches the caller; and
   when the call succeeds both return what it returned, with is_tube. *)
C10_SilentlyFail ==
    entry = "orbit_to_freqs" =>
        /\ pc = "raised" => ~silently_fail /\ ~exc.none /\ otf_ret = None
        /\ (Terminal /\ ~exc.none /\ ~silently_fail) => pc = "raised"
        /\ (pc = "returned" /\ ~exc.none) =>
              /\ silently_fail
              /\ otf_ret = Some([freqs |-> <<[nan |-> TRUE], [nan |-> TRUE], [nan |-> TRUE]>>,
                                 d |-> None, ixes |-> None, is_tube |-> is_tube])
        /\ (pc = "returned" /\ exc.none) =>
              /\ fff_ret # None
              /\ otf_ret = Some([freqs |-> [j \in 1..3 |->
                                              [nan |-> FALSE, val |-> fff_ret.val.ffreq[j]]],
                                 d |-> Some(fff_ret.val.d),
                                 ixes |-> Some(fff_ret.val.ixes),
                                 is_tube |-> is_tube])

(* orbit_to_freqs returned NaNs for a tube orbit after the selection
   failed. *)
C10_Witness ==
    /\ pc = "returned" /\ entry = "orbit_to_freqs"
    /\ silently_fail /\ is_tube
    /\ ~exc.none /\ exc.val.type = "IndexError"
    /\ otf_ret.val.freqs = NaNs

----------------------------------------------------------------------------
(* Properties of the selection, under SpecSelect. *)

(* C5 as claimed: find_fundamental_frequencies ends with every fundamental
   assigned from the table, or with the error "Don't have x,y,z
   frequencies.", and with nothing else. *)
C5_AsClaimed ==
    (Terminal /\ entry = "find_fundamental_frequencies") =>
        \/ /\ pc = "returned"
           /\ fff_ret # None
           /\ \A m \in 1..ndim :
                 /\ fff_ret.val.ixes[m] + 1 \in 1..Len(d)
                 /\ fff_ret.val.ffreq[m] = d[fff_ret.val.ixes[m] + 1].freq
        \/ /\ pc = "raised"
           /\ exc = Some([type |-> "ValueError", msg |-> "Don't have x,y,z frequencies."])

(* C6: when find_fundamental_frequencies returns (ffreq, d, ixes), the row
   d[ixes[m]] is of source dimension m and ffreq[m] is its frequency, for
   every m: the fundamentals are in the order of the dimensions. *)
C6_OrderedByDimension ==
    (pc = "returned" /\ entry = "find_fundamental_frequencies") =>
        /\ Len(fff_ret.val.ffreq) = ndim
        /\ Len(fff_ret.val.ixes) = ndim
        /\ fff_ret.val.d = d
        /\ \A m \in 1..ndim :
              /\ d[fff_ret.val.ixes[m] + 1].n = m - 1
              /\ fff_ret.val.ffreq[m] = d[fff_ret.val.ixes[m] + 1].freq

(* Three fundamentals, picked in the order z, y, x of the dimensions. *)
C6_Witness ==
    /\ pc = "returned" /\ entry = "find_fundamental_frequencies"
    /\ ndim = 3
    /\ nqs = <<2, 1, 0>>
    /\ ffreq_ixes # fff_ret.val.ixes

(* C7: the table is in descending order of magnitude, and each fundamental
   is a component that satisfies the guards of its pick while no component
   of larger magnitude does: |freq| > 1e-5 for the first; that, another
   dimension than the first's and a |freq| more than 1e-6 from the first's
   for the second; that, a dimension other than both and a |freq| more than
   1e-6 from both for the third. *)
C7_HighestMagnitude ==
    (pc = "returned" /\ entry = "find_fundamental_frequencies") =>
        LET r0 == d[ffreq_ixes[1] + 1]
            G1(r) == Abs(r.freq) > 10
            G2(r) == /\ Abs(r.freq) > 10
                     /\ r.n # r0.n
                     /\ Abs(Abs(r0.freq) - Abs(r.freq)) > 1
        IN  /\ \A a, b \in 1..Len(d) : a < b => d[a].absA >= d[b].absA
            /\ G1(r0)
            /\ \A j \in 1..Len(d) : d[j].absA > r0.absA => ~G1(d[j])
            /\ ndim >= 2 =>
                  LET r1 == d[ffreq_ixes[2] + 1] IN
                  /\ G2(r1)
                  /\ \A j \in 1..Len(d) : d[j].absA > r1.absA => ~G2(d[j])
                  /\ ndim = 3 =>
                        LET r2 == d[ffreq_ixes[3] + 1]
                            G3(r) == /\ G2(r)
                                     /\ r.n # r1.n
                                     /\ Abs(Abs(r1.freq) - Abs(r.freq)) > 1
                        IN  /\ G3(r2)
                            /\ \A j \in 1..Len(d) : d[j].absA > r2.absA => ~G3(d[j])

(* The second fundamental is picked below a component of larger magnitude
   of its dimension, which is too close to the first fundamental. *)
C7_Witness ==
    /\ pc = "returned" /\ entry = "find_fundamental_frequencies"
    /\ ndim = 2
    /\ \E j \in 1..Len(d) :
          /\ d[j].absA > d[ffreq_ixes[2] + 1].absA
          /\ d[j].n = d[ffreq_ixes[2] + 1].n
          /\ Abs(d[j].freq) > 10

----------------------------------------------------------------------------
(* Properties of find_integer_vectors, under SpecIntVec. *)

(* The integer vectors of {-imax..imax}^m. *)
IntegerVectors == [1..Len(ffreqs) -> (-imax)..imax]

(* The place of an integer vector in nvecs, from 0. *)
RECURSIVE Place(_)
Place(n) ==
    IF n = <<>> THEN 0
    ELSE (n[1] + imax) + (2 * imax + 1) * Place(Tail(n))

(* C9 as claimed: for a component whose frequency is n.ffreqs for an
   integer vector n of the range, the fitted vector is n, with error 0. *)
C9_AsClaimed ==
    pc = "returned" =>
        \A j \in 1..Len(d) : \A n \in IntegerVectors :
            Dot(n, ffreqs) = d[j].freq => d_nvec[j] = n /\ err[j] = 0

(* C9: for a component whose frequency is n.ffreqs for an integer vector n
   of the range, the fitted vector gives that frequency too, with error 0:
   it is the first of nvecs that does, and it is n when no other vector of
   the range gives the frequency. *)
C9_FirstExactVector ==
    pc = "returned" =>
        \A j \in 1..Len(d) : \A n \in IntegerVectors :
            Dot(n, ffreqs) = d[j].freq =>
                /\ d_nvec[j] \in IntegerVectors
                /\ Dot(d_nvec[j], ffreqs) = d[j].freq
                /\ err[j] = 0
                /\ Place(d_nvec[j]) <= Place(n)
                /\ (\A o \in IntegerVectors : Dot(o, ffreqs) = d[j].freq => o = n)
                      => d_nvec[j] = n

(* A component with the frequency of two integer vectors, fitted with the
   first. *)
C9_Witness ==
    /\ pc = "returned"
    /\ ffreqs = <<2, -4>>
    /\ d[1].freq = 2
    /\ d_nvec[1] = <<-1, -1>>

----------------------------------------------------------------------------
(* Properties of the constructor, under SpecGrid. *)

(* C11 as claimed: a grid with an even number of samples is rejected or
   padded at construction: no hanning_product is computed on an object whose
   grid has an even number of samples. *)
C11_AsClaimed ==
    /\ (~self.none /\ entry = "NAFF.__init__") => Len(self.val.tz2) % 2 = 1
    /\ hp_ret # None => Len(u1) % 2 = 1

----------------------------------------------------------------------------
(* Properties of the sort of the table, under SpecSelect. *)

(* C12 as claimed: the sorted table is the stable sort of the table by
   descending magnitude: components of equal magnitude are in the order of
   the unsorted table, which is that of the dimensions and, in a dimension,
   of the extraction; so the first fundamental is the first component of
   the unsorted table among those of its magnitude that pass its guard. *)
C12_AsClaimed ==
    d # <<>> =>
        LET dims == [m \in 1..Len(freqs) |-> [j \in 1..Len(freqs[m]) |-> m - 1]]
            unsorted == Table(freqs, As, amps, phis, dims)
            stable == CHOOSE o \in DescOrders([j \in 1..Len(unsorted) |-> unsorted[j].absA],
                                              1..Len(unsorted)) :
                          \A a, b \in 1..Len(o) :
                              (a < b /\ unsorted[o[a]].absA = unsorted[o[b]].absA)
                                  => o[a] < o[b]
        IN  /\ d = [j \in 1..Len(stable) |-> unsorted[stable[j]]]
            /\ pc = "returned" =>
                  \A j \in 1..Len(unsorted) :
                      (/\ unsorted[j].absA = d[ffreq_ixes[1] + 1].absA
                       /\ Abs(unsorted[j].freq) > 10
                       /\ \A x \in 1..(j - 1) :
                             ~(/\ unsorted[x].absA = unsorted[j].absA
                               /\ Abs(unsorted[x].freq) > 10))
                          => d[ffreq_ixes[1] + 1] = unsorted[j]

----------------------------------------------------------------------------
(* Properties of the early return of frequency, under SpecPeak. *)

(* C13 as claimed: the early return is taken only when every real
   component of the transform is zero. *)
C13_AsClaimed ==
    (pc = "frequency_return" /\ runs = <<>>) => \A j \in 1..Len(xf) : xf[j] = 0

(* C13: frequency returns 0. at once, with no run of the minimizer and no
   exception, exactly when the real part of the transform is zero at the
   peak, the first index where max(|xf|, |yf|) is largest; otherwise the
   series goes to the refinement.  A transform whose real parts are all zero
   is such a case, and so is one whose peak is in the imaginary part alone
   while a real part is nonzero somewhere else. *)
C13_EarlyReturn ==
    /\ [][pc = "frequency_peak" =>
            LET big(j) == IF Abs(xf[j]) >= Abs(yf[j]) THEN Abs(xf[j]) ELSE Abs(yf[j])
                peak == CHOOSE j \in 1..Len(xf) :
                            \A m \in 1..Len(xf) :
                                big(m) < big(j) \/ (big(m) = big(j) /\ j <= m)
            IN  /\ (pc' = "frequency_return") <=> (xf[peak] = 0)
                /\ (pc' # "frequency_return") <=> (pc' = "frequency_refine")
                /\ (\A j \in 1..Len(xf) : xf[j] = 0) => pc' = "frequency_return"
                /\ pc' = "frequency_return" =>
                      fret' = 0 /\ runs' = <<>> /\ exc' = None /\ stack' = stack]_vars
    /\ []((pc = "returned" /\ runs = <<>>) => (fret = 0 /\ exc = None))
    /\ [](pc = "frequency_refine" => xf = [j \in 1..Len(fk) |-> fk[j][1]])

(* The early return on a transform whose second real part is not zero: the
   peak is the first index, where only the imaginary part is not zero. *)
C13_Witness ==
    /\ pc = "returned" /\ entry = "frequency"
    /\ runs = <<>> /\ fret = 0
    /\ xf = <<0, 1>> /\ yf = <<1, 0>>

----------------------------------------------------------------------------
(* Properties of gso and of the step of frecoder that calls it, under
   SpecGso. *)

(* C14: when the self product of e_i is zero, gso raises nothing and
   returns the vector of zeros, with norm 0; in the step of frecoder the
   amplitude ab of the vector is 0, so A[k] = 0, the residual fk is left as
   it was and fmax is its peak; the loop then stops or goes on by the rule
   of every step: it stops when k = nintvec-1 or break_condition is not None
   and fmax or A[k] = 0 is below it. *)
C14_ZeroNorm ==
    /\ [](prod = Some(<<0, 0>>) =>
            /\ norm = Some(<<0, 0>>)
            /\ ecap_k = [j \in 1..Len(t) |-> <<0, 0>>]
            /\ exc = None
            /\ pc \notin {"unwind", "raised"})
    /\ [][(pc = "frecoder_project" /\ prod = Some(<<0, 0>>)) =>
            /\ ab' = <<0, 0>>
            /\ A'[k.val + 1] = 0
            /\ phi'[k.val + 1] = 0
            /\ fk' = fk
            /\ \A j \in 1..Len(fk) : Abs(fk[j][1]) + Abs(fk[j][2]) <= fmax'
            /\ \E j \in 1..Len(fk) : Abs(fk[j][1]) + Abs(fk[j][2]) = fmax'
            /\ (pc' = "frecoder_return") <=>
                  \/ k.val = nintvec - 1
                  \/ /\ break_condition # None
                     /\ (fmax' < break_condition.val \/ 0 < break_condition.val)
            /\ pc' = "frecoder_return" => k' = k
            /\ pc' # "frecoder_return" => (pc' = "frequency" /\ k' = Some(k.val + 1))]_vars

(* A vector e_i that is not zero, of self product zero, at step 1 of 3 with
   break_condition 0: the step has amplitude 0 and the loop goes on to
   step 2. *)
C14_Witness ==
    /\ pc = "frequency" /\ entry = "frecoder"
    /\ prod = Some(<<0, 0>>)
    /\ \E j \in 1..Len(e_i) : e_i[j] # <<0, 0>>
    /\ ab = <<0, 0>> /\ A[2] = 0
    /\ k = Some(2) /\ break_condition = Some(0)

====
